---- MODULE Spec2Model ----
(***************************************************************************)
(* Model of backend/app.py: the scam-alert pipeline (phone normalizer,     *)
(* keyword classifier, in-memory stores, SMS dispatch with logging).       *)
(*                                                                         *)
(* Python strings that the code inspects character by character (phones,   *)
(* emails, message texts) are sequences of one-character strings.  Python  *)
(* None is the one-element sequence None, which is no character sequence.  *)
(***************************************************************************)
EXTENDS Integers, Sequences, FiniteSets, TLC

VARIABLES
    twilio_client,   \* "client" when TWILIO_SID and TWILIO_AUTH are set, else "None"
    USERS_DB,        \* function: lower-cased email -> [profile, family, history]
    ALERTS_DB,       \* global alert log, most recent first
    FAMILY_LOG_DB,   \* SMS send log, most recent first
    request,         \* the request the last handler served
    response,        \* the response the last handler returned
    gateway_calls,   \* calls of send_sms_twilio_single made by the last handler
    provider_calls,  \* calls of twilio_client.messages.create made by the last handler
    phone_raw,       \* normalizer specification: the raw input
    e164,            \* normalizer specification: the value returned for phone_raw
    inflight         \* concurrent specification: the save_alert calls between their two inserts

vars == <<twilio_client, USERS_DB, ALERTS_DB, FAMILY_LOG_DB,
          request, response, gateway_calls, provider_calls, phone_raw, e164,
          inflight>>

(***************************************************************************)
(* Bounds of the model.                                                    *)
(***************************************************************************)
MaxAlerts == 2           \* alerts recorded in one behaviour of Spec
MaxLog == 1              \* Delivery Ledger entries recorded in one behaviour of Spec
MaxDispatchLog == 2      \* Delivery Ledger entries recorded in one behaviour of SpecDispatch
MaxDispatchAlerts == 1   \* alerts recorded in one behaviour of SpecDispatch
MaxDirectoryAlerts == 2  \* alerts recorded in one behaviour of SpecDirectory
MaxConcurrentAlerts == 2 \* alerts recorded in one behaviour of SpecConcurrent
MaxThreads == 2          \* test_message requests served at the same time

(***************************************************************************)
(* Python values.                                                          *)
(***************************************************************************)
None == <<"None">>

Digits == {"0", "1", "2", "3", "4", "5", "6", "7", "8", "9"}

Whitespace == {" ", "\t"}

\* truthiness of a str-or-None value: None and "" are falsy
Truthy(v) == v # None /\ v # <<>>

\* x or y
Or(x, y) == IF Truthy(x) THEN x ELSE y

\* str.isdigit(): a non-empty string of digits
isdigit(s) == Len(s) > 0 /\ \A i \in 1..Len(s) : s[i] \in Digits

\* str.startswith(p)
startswith(s, p) == Len(s) >= Len(p) /\ SubSeq(s, 1, Len(p)) = p

\* str.strip(): drop leading and trailing whitespace
RECURSIVE lstrip(_)
lstrip(s) == IF s # <<>> /\ Head(s) \in Whitespace THEN lstrip(Tail(s)) ELSE s

RECURSIVE rstrip(_)
rstrip(s) ==
    IF s # <<>> /\ s[Len(s)] \in Whitespace THEN rstrip(SubSeq(s, 1, Len(s) - 1)) ELSE s

strip(s) == rstrip(lstrip(s))

\* s.replace(ch, "") for one character ch
replace(s, ch) == SelectSeq(s, LAMBDA c : c # ch)

\* str.lower() on ASCII text
Lowercase ==
    << "a","b","c","d","e","f","g","h","i","j","k","l","m",
       "n","o","p","q","r","s","t","u","v","w","x","y","z" >>

Uppercase ==
    << "A","B","C","D","E","F","G","H","I","J","K","L","M",
       "N","O","P","Q","R","S","T","U","V","W","X","Y","Z" >>

\* the lower-case letter of each capital
LowerOf ==
    [c \in { Uppercase[i] : i \in DOMAIN Uppercase } |->
        Lowercase[CHOOSE i \in DOMAIN Uppercase : Uppercase[i] = c]]

lower_char(c) == IF c \in DOMAIN LowerOf THEN LowerOf[c] ELSE c

lower(s) == [i \in 1..Len(s) |-> lower_char(s[i])]

\* k in s, for strings
contains(s, k) ==
    \E i \in 1..(Len(s) - Len(k) + 1) : SubSeq(s, i, i + Len(k) - 1) = k

(***************************************************************************)
(* clean_and_e164                                                          *)
(***************************************************************************)
default_country == <<"9", "1">>

Punctuation == <<" ", "-", "(", ")", ".">>

RECURSIVE remove_all(_, _)
remove_all(s, chars) ==
    IF chars = <<>> THEN s ELSE remove_all(replace(s, Head(chars)), Tail(chars))

\* faulty variant of clean_and_e164: the national forms are returned without the leading "+"
clean_and_e164_bare(raw) ==
    IF ~Truthy(raw) THEN None
    ELSE LET s == remove_all(strip(raw), Punctuation)
             s_noplus == IF startswith(s, <<"+">>) THEN Tail(s) ELSE s
         IN  IF isdigit(s_noplus) /\ Len(s_noplus) = 10
                 THEN default_country \o s_noplus
             ELSE IF isdigit(s_noplus) /\ Len(s_noplus) = 12
                     /\ startswith(s_noplus, default_country)
                 THEN s_noplus
             ELSE IF isdigit(s_noplus) /\ Len(s_noplus) = 11
                     /\ startswith(s_noplus, <<"0">>)
                     /\ isdigit(Tail(s_noplus)) /\ Len(Tail(s_noplus)) = 10
                 THEN default_country \o Tail(s_noplus)
             ELSE IF startswith(s, <<"+">>) /\ isdigit(Tail(s))
                 THEN s
             ELSE None

\* faulty variant of clean_and_e164: any 12 digits are taken to carry a country code
clean_and_e164_guess(raw) ==
    IF ~Truthy(raw) THEN None
    ELSE LET s == remove_all(strip(raw), Punctuation)
             s_noplus == IF startswith(s, <<"+">>) THEN Tail(s) ELSE s
         IN  IF isdigit(s_noplus) /\ Len(s_noplus) = 10
                 THEN <<"+">> \o default_country \o s_noplus
             ELSE IF isdigit(s_noplus) /\ Len(s_noplus) = 12
                 THEN <<"+">> \o s_noplus
             ELSE IF isdigit(s_noplus) /\ Len(s_noplus) = 11
                     /\ startswith(s_noplus, <<"0">>)
                     /\ isdigit(Tail(s_noplus)) /\ Len(Tail(s_noplus)) = 10
                 THEN <<"+">> \o default_country \o Tail(s_noplus)
             ELSE IF startswith(s, <<"+">>) /\ isdigit(Tail(s))
                 THEN s
             ELSE None

\* faulty variant of clean_and_e164: ten digits written with a "+" are taken to carry their
\* own country code
clean_and_e164_signed(raw) ==
    IF ~Truthy(raw) THEN None
    ELSE LET s == remove_all(strip(raw), Punctuation)
             s_noplus == IF startswith(s, <<"+">>) THEN Tail(s) ELSE s
         IN  IF isdigit(s_noplus) /\ Len(s_noplus) = 10 /\ ~startswith(s, <<"+">>)
                 THEN <<"+">> \o default_country \o s_noplus
             ELSE IF isdigit(s_noplus) /\ Len(s_noplus) = 12
                     /\ startswith(s_noplus, default_country)
                 THEN <<"+">> \o s_noplus
             ELSE IF isdigit(s_noplus) /\ Len(s_noplus) = 11
                     /\ startswith(s_noplus, <<"0">>)
                     /\ isdigit(Tail(s_noplus)) /\ Len(Tail(s_noplus)) = 10
                 THEN <<"+">> \o default_country \o Tail(s_noplus)
             ELSE IF startswith(s, <<"+">>) /\ isdigit(Tail(s))
                 THEN s
             ELSE None

\* faulty variant of clean_and_e164: the leading "+" is not set aside for the checks, and
\* no rule accepts a number written with it
clean_and_e164_unsigned(raw) ==
    IF ~Truthy(raw) THEN None
    ELSE LET s == remove_all(strip(raw), Punctuation)
         IN  IF isdigit(s) /\ Len(s) = 10
                 THEN <<"+">> \o default_country \o s
             ELSE IF isdigit(s) /\ Len(s) = 12 /\ startswith(s, default_country)
                 THEN <<"+">> \o s
             ELSE IF isdigit(s) /\ Len(s) = 11 /\ startswith(s, <<"0">>)
                     /\ isdigit(Tail(s)) /\ Len(Tail(s)) = 10
                 THEN <<"+">> \o default_country \o Tail(s)
             ELSE None

clean_and_e164(raw) ==
    IF ~Truthy(raw) THEN None
    ELSE LET s == remove_all(strip(raw), Punctuation)
             s_noplus == IF startswith(s, <<"+">>) THEN Tail(s) ELSE s
         IN  IF isdigit(s_noplus) /\ Len(s_noplus) = 10
                 THEN <<"+">> \o default_country \o s_noplus
             ELSE IF isdigit(s_noplus) /\ Len(s_noplus) = 12
                     /\ startswith(s_noplus, default_country)
                 THEN <<"+">> \o s_noplus
             ELSE IF isdigit(s_noplus) /\ Len(s_noplus) = 11
                     /\ startswith(s_noplus, <<"0">>)
                     /\ isdigit(Tail(s_noplus)) /\ Len(Tail(s_noplus)) = 10
                 THEN <<"+">> \o default_country \o Tail(s_noplus)
             ELSE IF startswith(s, <<"+">>) /\ isdigit(Tail(s))
                 THEN s
             ELSE None

(***************************************************************************)
(* send_sms_twilio_single                                                  *)
(***************************************************************************)
NotConfigured == [ok |-> FALSE, error |-> "Twilio not configured (env missing)."]

Delivered == [ok |-> TRUE, sid |-> "SM01"]

Failed == [ok |-> FALSE, error |-> "provider error"]

\* what twilio_client.messages.create can do: return a message or raise
ProviderOutcomes == {Delivered, Failed}

\* faulty variant of send_sms_twilio_single: without the check of twilio_client the call on
\* None raises, and the handler of the exception returns its text
send_sms_twilio_single_unchecked(client, outcome) ==
    IF client = "None"
    THEN [ok |-> FALSE, error |-> "'NoneType' object has no attribute 'messages'"]
    ELSE outcome

\* the result of one call, given what the provider does when it is called
send_sms_twilio_single(client, outcome) ==
    IF client = "None" THEN NotConfigured ELSE outcome

(***************************************************************************)
(* analyze_message                                                         *)
(***************************************************************************)
keywords == <<
    <<"o","t","p">>, <<"u","r","g","e","n","t">>, <<"b","a","n","k">>,
    <<"b","l","o","c","k","e","d">>, <<"v","e","r","i","f","y">>,
    <<"p","a","s","s","w","o","r","d">>, <<"t","r","a","n","s","f","e","r">>,
    <<"a","c","c","o","u","n","t">>, <<"c","l","i","c","k">>, <<"w","i","r","e">> >>

SuspiciousWarning == "This message looks suspicious. Do NOT share OTP/passwords."

SafeWarning == "This message appears safe."

FailureWarning == "AI could not analyze this message."

\* a JSON string and a JSON number, as request values
Str(s) == [t |-> "str", v |-> s]

Num(s) == [t |-> "int", v |-> s]

\* faulty variant of analyze_message: the keywords are looked for in the text as it is written
analyze_message_cased(message_text) ==
    IF message_text.t # "str"
    THEN [is_scam |-> "None", elder_warning |-> FailureWarning,
          explanation |-> "'int' object has no attribute 'lower'"]
    ELSE LET is_scam == \E i \in 1..Len(keywords) : contains(message_text.v, keywords[i])
         IN  [is_scam |-> IF is_scam THEN "True" ELSE "False",
              elder_warning |-> IF is_scam THEN SuspiciousWarning ELSE SafeWarning,
              explanation |-> "Detected using keyword rules (demo)."]

\* faulty variant of analyze_message: a value that is no text is classified by its text
analyze_message_coerced(message_text) ==
    LET lower_text == lower(message_text.v)
        is_scam == \E i \in 1..Len(keywords) : contains(lower_text, keywords[i])
    IN  [is_scam |-> IF is_scam THEN "True" ELSE "False",
         elder_warning |-> IF is_scam THEN SuspiciousWarning ELSE SafeWarning,
         explanation |-> "Detected using keyword rules (demo)."]

\* message_text is what test_message passes: the value of the request, or ""
analyze_message(message_text) ==
    IF message_text.t # "str"
    THEN \* (message_text or "").lower() raises AttributeError
         [is_scam |-> "None", elder_warning |-> FailureWarning,
          explanation |-> "'int' object has no attribute 'lower'"]
    ELSE LET lower_text == lower(message_text.v)
             is_scam == \E i \in 1..Len(keywords) : contains(lower_text, keywords[i])
         IN  [is_scam |-> IF is_scam THEN "True" ELSE "False",
              elder_warning |-> IF is_scam THEN SuspiciousWarning ELSE SafeWarning,
              explanation |-> "Detected using keyword rules (demo)."]

(***************************************************************************)
(* The stores.                                                             *)
(***************************************************************************)
\* dict.get(k)
dict_get(d, k) == IF k \in DOMAIN d THEN d[k] ELSE None

default_user(email) ==
    [profile |-> [email |-> email, name |-> <<>>, phone |-> <<>>],
     family |-> <<>>, history |-> <<>>]

\* faulty variant of setdefault: the default record is stored also over an existing one
setdefault_reset(db, email) ==
    [e \in DOMAIN db \cup {email} |-> IF e = email THEN default_user(email) ELSE db[e]]

\* USERS_DB.setdefault(email, default record), as the dictionary afterwards
setdefault(db, email) ==
    IF email \in DOMAIN db THEN db
    ELSE [e \in DOMAIN db \cup {email} |-> IF e = email THEN default_user(email) ELSE db[e]]

\* faulty variant of insert0: list.append(x)
insert_last(list, x) == list \o <<x>>

\* list.insert(0, x)
insert0(list, x) == <<x>> \o list

\* an id no other entry of the ledger carries
gen_id(ledger) == Len(ledger) + 1

\* the alert of save_alert (created_at, the wall-clock time, is not modelled)
new_alert(sender, message, analysis, user_email, id) ==
    [id |-> id, sender |-> sender, message |-> message,
     is_scam |-> analysis.is_scam, elder_warning |-> analysis.elder_warning,
     explanation |-> analysis.explanation, user_email |-> user_email]

\* faulty variant of save_alert_users: the alert is stored in the history only if the user
\* exists
save_alert_users_known(db, alert) ==
    IF Truthy(alert.user_email) /\ alert.user_email \in DOMAIN db
    THEN [db EXCEPT ![alert.user_email].history = insert0(@, alert)]
    ELSE db

\* USERS_DB after save_alert stored the alert
save_alert_users(db, alert) ==
    IF Truthy(alert.user_email)
    THEN LET created == setdefault(db, alert.user_email)
         IN  [created EXCEPT ![alert.user_email].history = insert0(@, alert)]
    ELSE db

(***************************************************************************)
(* Request values.                                                         *)
(***************************************************************************)
National == <<"9","8","7","6","5","4","3","2","1","0">>

PlusForm == <<"+">> \o default_country \o National

CountryForm == default_country \o National

ShortNumber == <<"1","2","3","4","5">>

Foreign == <<"+","1","5","0","1","7","1","2","2","6","6","1">>

\* None: the request carries no email
EmailInputs == { None, <<"A","@","x">>, <<"a","@","x">> }

SenderInputs == { "Bank" }

MessageInputs ==
    { Str(<<"O","T","P"," ","n","o","w">>), Str(<<"h","e","l","l","o">>), Num(<<"5">>) }

EmptyDict == [k \in {} |-> <<>>]

Profile(phone) == [name |-> <<"A","s","h","a">>, phone |-> phone]

Contact(phone) == [name |-> <<"K","i","n">>, phone |-> phone]

NoPhoneContact == [name |-> <<"K","i","n">>]

List(l) == [t |-> "list", v |-> l]

AdhocMessage == "Please call your mother"

AdhocDetails == "details"

\* the payloads of the requests of Spec
ServiceProfiles == { Profile(National) }

ServiceFamilies == { << Contact(PlusForm) >> }

ServicePhones == { List(<<>>), List(<<National>>) }

\* the payloads of the requests of SpecDispatch
DispatchEmails == { None, <<"A","@","x">> }

\* the email of the requests that write the directory in SpecDispatch
DispatchUsers == { <<"A","@","x">> }

DispatchProfiles == { Profile(National) }

DispatchFamilies ==
    { <<>>,
      << Contact(PlusForm), Contact(Foreign) >>,
      << Contact(CountryForm), Contact(ShortNumber) >>,
      << NoPhoneContact >> }

\* the "phones" value of a request: a list of raw phones, or a value that is no list
DispatchPhones ==
    { Str(National), List(<<>>), List(<<ShortNumber>>),
      List(<<National, National>>), List(<<National, PlusForm>>),
      List(<<ShortNumber, Foreign>>) }

\* the orders in which a Python set can be iterated
Orders(S) ==
    { f \in [1..Cardinality(S) -> S] : \A i, j \in 1..Cardinality(S) : f[i] = f[j] => i = j }

(***************************************************************************)
(* The dispatch loops of test_message and send_family_alert.               *)
(***************************************************************************)
\* clean_and_e164 and analyze_message on the values a request can carry, evaluated once
RawPhones == { National, PlusForm, CountryForm, ShortNumber, Foreign }

E164Table == [ph \in RawPhones |-> clean_and_e164(ph)]

AnalysisTable == [m \in MessageInputs |-> analyze_message(m)]

\* faulty variant of clean_all: the loop ends at the first phone that fails to normalize
RECURSIVE clean_all_break(_)
clean_all_break(phones) ==
    IF phones = <<>> THEN <<>>
    ELSE LET e == E164Table[Head(phones)]
         IN  IF Truthy(e) THEN <<e>> \o clean_all_break(Tail(phones)) ELSE <<>>

\* cleaned: the successful normalizations of a list of raw phones, in order
RECURSIVE clean_all(_)
clean_all(phones) ==
    IF phones = <<>> THEN <<>>
    ELSE LET e == E164Table[Head(phones)]
         IN  IF Truthy(e) THEN <<e>> \o clean_all(Tail(phones)) ELSE clean_all(Tail(phones))

\* recipients of test_message: raw phones of the profile and of the family
recipients_of(db, email) ==
    IF Truthy(email) /\ email \in DOMAIN db
    THEN (IF Truthy(dict_get(db[email].profile, "phone"))
          THEN { db[email].profile.phone } ELSE {})
         \cup { dict_get(db[email].family[i], "phone") :
                  i \in { j \in 1..Len(db[email].family) :
                            Truthy(dict_get(db[email].family[j], "phone")) } }
    ELSE {}

\* faulty variant of should_dispatch: every verdict but False dispatches
should_dispatch_unless_safe(analysis) == analysis.is_scam # "False"

\* if analysis.get("is_scam") is True
should_dispatch(analysis) == analysis.is_scam = "True"

\* what the provider does at each send of a dispatch of n targets
OutcomeSeqs(client, n) ==
    IF client = "None" THEN { [i \in 1..n |-> NotConfigured] }
    ELSE [1..n -> ProviderOutcomes]

\* faulty variant of send_each: the loop ends at the first send that fails
send_each_abort(client, cleaned, outcomes) ==
    LET all == [i \in 1..Len(cleaned) |-> send_sms_twilio_single(client, outcomes[i])]
        failures == { i \in 1..Len(all) : ~all[i].ok }
    IN  IF failures = {} THEN all
        ELSE SubSeq(all, 1, CHOOSE i \in failures : \A j \in failures : i <= j)

\* res of each pass of the loop "for e164 in cleaned"
send_each(client, cleaned, outcomes) ==
    [i \in 1..Len(cleaned) |-> send_sms_twilio_single(client, outcomes[i])]

\* the calls of send_sms_twilio_single behind the passes of the loop
calls_of(cleaned, body, results) ==
    [i \in 1..Len(results) |-> [to |-> cleaned[i], body |-> body, result |-> results[i]]]

\* the calls of twilio_client.messages.create made for the targets of one dispatch
provider_calls_for(client, cleaned, body) ==
    IF client = "None" THEN <<>>
    ELSE [i \in 1..Len(cleaned) |-> [to |-> cleaned[i], body |-> body]]

\* sms_results of test_message: one log entry per pass of the loop
sms_results_of(log, cleaned, body, results) ==
    [i \in 1..Len(results) |->
        [id |-> gen_id(log) + i - 1, to |-> cleaned[i], body |-> body,
         result |-> results[i]]]

\* sms_results of send_family_alert: one log entry per pass of the loop
adhoc_results_of(log, cleaned, message_text, details, results) ==
    [i \in 1..Len(results) |->
        [id |-> gen_id(log) + i - 1, to |-> cleaned[i], message_sent |-> message_text,
         details |-> details, result |-> results[i]]]

\* the log after FAMILY_LOG_DB.insert(0, entry) for each entry in turn
RECURSIVE insert_each(_, _)
insert_each(log, entries) ==
    IF entries = <<>> THEN log
    ELSE insert_each(insert0(log, Head(entries)), Tail(entries))

\* if not isinstance(phones, list) or not phones
phones_rejected(phones) == phones.t # "list" \/ phones.v = <<>>

\* faulty variant of none_valid: the check of the cleaned list is missing
none_valid_unchecked(cleaned) == FALSE

\* if not cleaned
none_valid(cleaned) == cleaned = <<>>

(***************************************************************************)
(* Initial state: the module has been imported.                            *)
(***************************************************************************)
Init ==
    /\ twilio_client \in {"None", "client"}
    /\ USERS_DB = EmptyDict
    /\ ALERTS_DB = <<>>
    /\ FAMILY_LOG_DB = <<>>
    /\ request = [op |-> "start"]
    /\ response = EmptyDict
    /\ gateway_calls = <<>>
    /\ provider_calls = <<>>
    /\ phone_raw = None
    /\ e164 = None
    /\ inflight = <<>>

no_dispatch == gateway_calls' = <<>> /\ provider_calls' = <<>>

email_required == [status |-> 400, success |-> FALSE, error |-> "email required"]

(***************************************************************************)
(* POST /login                                                             *)
(***************************************************************************)
\* faulty variant of login: the record is created before the email is checked
login_unchecked(email_in) ==
    LET email == lower(Or(email_in, <<>>))
    IN  /\ request' = [op |-> "login", email |-> email_in]
        /\ USERS_DB' = setdefault(USERS_DB, email)
        /\ response' = IF ~Truthy(email) THEN email_required
                       ELSE [status |-> 200, success |-> TRUE, user |-> USERS_DB'[email]]
        /\ no_dispatch
        /\ UNCHANGED <<twilio_client, ALERTS_DB, FAMILY_LOG_DB, phone_raw, e164, inflight>>

login(email_in) ==
    LET email == lower(Or(email_in, <<>>))
    IN  /\ request' = [op |-> "login", email |-> email_in]
        /\ IF ~Truthy(email)
           THEN /\ response' = email_required
                /\ UNCHANGED USERS_DB
           ELSE /\ USERS_DB' = setdefault(USERS_DB, email)
                /\ response' = [status |-> 200, success |-> TRUE, user |-> USERS_DB'[email]]
        /\ no_dispatch
        /\ UNCHANGED <<twilio_client, ALERTS_DB, FAMILY_LOG_DB, phone_raw, e164, inflight>>

(***************************************************************************)
(* POST /save-profile                                                      *)
(***************************************************************************)
save_profile(email_in, profile) ==
    LET email == lower(Or(email_in, <<>>))
    IN  /\ request' = [op |-> "save_profile", email |-> email_in, profile |-> profile]
        /\ IF ~Truthy(email)
           THEN /\ response' = email_required
                /\ UNCHANGED USERS_DB
           ELSE /\ USERS_DB' = [setdefault(USERS_DB, email) EXCEPT ![email].profile = profile]
                /\ response' = [status |-> 200, success |-> TRUE]
        /\ no_dispatch
        /\ UNCHANGED <<twilio_client, ALERTS_DB, FAMILY_LOG_DB, phone_raw, e164, inflight>>

(***************************************************************************)
(* POST /save-family                                                       *)
(***************************************************************************)
\* faulty variant of save_family: the contacts are added to the family
save_family_merge(email_in, family) ==
    LET email == lower(Or(email_in, <<>>))
    IN  /\ request' = [op |-> "save_family", email |-> email_in, family |-> family]
        /\ IF ~Truthy(email)
           THEN /\ response' = email_required
                /\ UNCHANGED USERS_DB
           ELSE /\ USERS_DB' = [setdefault(USERS_DB, email) EXCEPT ![email].family = @ \o family]
                /\ response' = [status |-> 200, success |-> TRUE]
        /\ no_dispatch
        /\ UNCHANGED <<twilio_client, ALERTS_DB, FAMILY_LOG_DB, phone_raw, e164, inflight>>

save_family(email_in, family) ==
    LET email == lower(Or(email_in, <<>>))
    IN  /\ request' = [op |-> "save_family", email |-> email_in, family |-> family]
        /\ IF ~Truthy(email)
           THEN /\ response' = email_required
                /\ UNCHANGED USERS_DB
           ELSE /\ USERS_DB' = [setdefault(USERS_DB, email) EXCEPT ![email].family = family]
                /\ response' = [status |-> 200, success |-> TRUE]
        /\ no_dispatch
        /\ UNCHANGED <<twilio_client, ALERTS_DB, FAMILY_LOG_DB, phone_raw, e164, inflight>>

(***************************************************************************)
(* GET /alerts                                                             *)
(***************************************************************************)
\* faulty variant of get_alerts: the user is looked up with setdefault
get_alerts_creating(email_in) ==
    /\ request' = [op |-> "get_alerts", email |-> email_in]
    /\ USERS_DB' = IF Truthy(email_in) THEN setdefault(USERS_DB, lower(email_in)) ELSE USERS_DB
    /\ response' =
         [status |-> 200,
          alerts |-> IF Truthy(email_in) THEN USERS_DB'[lower(email_in)].history
                     ELSE ALERTS_DB]
    /\ no_dispatch
    /\ UNCHANGED <<twilio_client, ALERTS_DB, FAMILY_LOG_DB, phone_raw, e164, inflight>>

get_alerts(email_in) ==
    /\ request' = [op |-> "get_alerts", email |-> email_in]
    /\ response' =
         [status |-> 200,
          alerts |-> IF Truthy(email_in)
                     THEN IF lower(email_in) \in DOMAIN USERS_DB
                          THEN USERS_DB[lower(email_in)].history ELSE <<>>
                     ELSE ALERTS_DB]
    /\ no_dispatch
    /\ UNCHANGED <<twilio_client, USERS_DB, ALERTS_DB, FAMILY_LOG_DB, phone_raw, e164, inflight>>

(***************************************************************************)
(* GET /family-logs                                                        *)
(***************************************************************************)
family_logs ==
    /\ request' = [op |-> "family_logs"]
    /\ response' = [status |-> 200, logs |-> FAMILY_LOG_DB]
    /\ no_dispatch
    /\ UNCHANGED <<twilio_client, USERS_DB, ALERTS_DB, FAMILY_LOG_DB, phone_raw, e164, inflight>>

(***************************************************************************)
(* POST /test-message                                                      *)
(***************************************************************************)
\* the SMS text of test_message (without the leading warning sign)
sms_body_of(sender, warning) == "Scam alert for " \o sender \o ": " \o warning

test_message(email_in, sender_in, message) ==
    LET email == lower(Or(email_in, <<>>))
        sender == IF sender_in = "" THEN "User" ELSE sender_in
        analysis == AnalysisTable[message]
        alert == new_alert(sender, message, analysis,
                           IF Truthy(email) THEN email ELSE None, gen_id(ALERTS_DB))
        users == save_alert_users(USERS_DB, alert)
        sms_body == sms_body_of(sender, analysis.elder_warning)
    IN  /\ request' = [op |-> "test_message", email |-> email_in, sender |-> sender_in,
                       message |-> message]
        /\ ALERTS_DB' = insert0(ALERTS_DB, alert)
        /\ USERS_DB' = users
        /\ IF should_dispatch(analysis)
           THEN \E order \in Orders(recipients_of(users, email)) :
                  LET cleaned == clean_all(order)
                  IN  \E outcomes \in OutcomeSeqs(twilio_client, Len(cleaned)) :
                        LET results == send_each(twilio_client, cleaned, outcomes)
                            sms_results ==
                              sms_results_of(FAMILY_LOG_DB, cleaned, sms_body, results)
                        IN  /\ FAMILY_LOG_DB' = insert_each(FAMILY_LOG_DB, sms_results)
                            /\ gateway_calls' = calls_of(cleaned, sms_body, results)
                            /\ provider_calls' =
                                 provider_calls_for(twilio_client, cleaned, sms_body)
                            /\ response' = [status |-> 200, success |-> TRUE,
                                            alert |-> alert, sms_sent |-> sms_results]
           ELSE /\ response' = [status |-> 200, success |-> TRUE, alert |-> alert]
                /\ no_dispatch
                /\ UNCHANGED FAMILY_LOG_DB
        /\ UNCHANGED <<twilio_client, phone_raw, e164, inflight>>

(***************************************************************************)
(* POST /send-family-alert                                                 *)
(***************************************************************************)
send_family_alert(phones, message_text, details) ==
    /\ request' = [op |-> "send_family_alert", phones |-> phones]
    /\ IF phones_rejected(phones)
       THEN /\ response' = [status |-> 400, success |-> FALSE,
                            error |-> "phones must be a non-empty list"]
            /\ no_dispatch
            /\ UNCHANGED FAMILY_LOG_DB
       ELSE LET cleaned == clean_all(phones.v)
            IN  IF none_valid(cleaned)
                THEN /\ response' = [status |-> 400, success |-> FALSE,
                                     error |-> "no valid phone numbers after cleaning"]
                     /\ no_dispatch
                     /\ UNCHANGED FAMILY_LOG_DB
                ELSE \E outcomes \in OutcomeSeqs(twilio_client, Len(cleaned)) :
                          LET results == send_each(twilio_client, cleaned, outcomes)
                              sms_results ==
                                adhoc_results_of(FAMILY_LOG_DB, cleaned, message_text,
                                                 details, results)
                          IN  /\ FAMILY_LOG_DB' = insert_each(FAMILY_LOG_DB, sms_results)
                              /\ gateway_calls' = calls_of(cleaned, message_text, results)
                              /\ provider_calls' =
                                   provider_calls_for(twilio_client, cleaned, message_text)
                              /\ response' = [status |-> 200, success |-> TRUE,
                                              sent |-> cleaned, logs |-> sms_results]
    /\ UNCHANGED <<twilio_client, USERS_DB, ALERTS_DB, phone_raw, e164, inflight>>

(***************************************************************************)
(* The service: requests are served one at a time.  A behaviour records at *)
(* most max_alerts alerts and max_log Delivery Ledger entries.             *)
(***************************************************************************)
Room(max_alerts) == Len(ALERTS_DB) < max_alerts

LogWithin(max_log) == Len(FAMILY_LOG_DB') <= max_log

Next ==
    \/ \E email_in \in EmailInputs : login(email_in)
    \/ \E email_in \in EmailInputs, profile \in ServiceProfiles :
         save_profile(email_in, profile)
    \/ \E email_in \in EmailInputs, family \in ServiceFamilies :
         save_family(email_in, family)
    \/ \E email_in \in EmailInputs : get_alerts(email_in)
    \/ family_logs
    \/ \E email_in \in EmailInputs, sender_in \in SenderInputs, message \in MessageInputs :
         Room(MaxAlerts) /\ test_message(email_in, sender_in, message) /\ LogWithin(MaxLog)
    \/ \E phones \in ServicePhones :
         send_family_alert(phones, AdhocMessage, AdhocDetails) /\ LogWithin(MaxLog)

Spec == Init /\ [][Next]_vars

(***************************************************************************)
(* The requests that write the directory and dispatch, with more payloads. *)
(***************************************************************************)
Dispatching ==
    \/ \E email_in \in DispatchUsers, profile \in DispatchProfiles :
         save_profile(email_in, profile)
    \/ \E email_in \in DispatchUsers, family \in DispatchFamilies :
         save_family(email_in, family)
    \/ \E email_in \in DispatchEmails, sender_in \in SenderInputs, message \in MessageInputs :
         /\ Room(MaxDispatchAlerts)
         /\ test_message(email_in, sender_in, message)
         /\ LogWithin(MaxDispatchLog)
    \/ \E phones \in DispatchPhones :
         send_family_alert(phones, AdhocMessage, AdhocDetails) /\ LogWithin(MaxDispatchLog)

SpecDispatch == Init /\ [][Dispatching]_vars

(***************************************************************************)
(* The requests that read and write the directory, for two users and for   *)
(* requests without an email.                                              *)
(***************************************************************************)
DirectoryEmails ==
    { None, <<>>, <<"A","@","x">>, <<"a","@","x">>, <<"b","@","x">> }

DirectoryProfiles == { Profile(National) }

DirectoryFamilies == { << Contact(PlusForm) >>, << Contact(Foreign) >> }

DirectoryMessages == { Str(<<"h","e","l","l","o">>) }

Directory ==
    \/ \E email_in \in DirectoryEmails : login(email_in)
    \/ \E email_in \in DirectoryEmails, profile \in DirectoryProfiles :
         save_profile(email_in, profile)
    \/ \E email_in \in DirectoryEmails, family \in DirectoryFamilies :
         save_family(email_in, family)
    \/ \E email_in \in DirectoryEmails : get_alerts(email_in)
    \/ \E email_in \in DirectoryEmails, sender_in \in SenderInputs,
          message \in DirectoryMessages :
         Room(MaxDirectoryAlerts) /\ test_message(email_in, sender_in, message)

\* no request of the directory dispatches: the gateway is left unconfigured
InitDirectory == Init /\ twilio_client = "None"

SpecDirectory == InitDirectory /\ [][Directory]_vars

(***************************************************************************)
(* Requests served by concurrent threads (app.run serves each request in   *)
(* its own thread).  A thread can be suspended between two statements: a   *)
(* test_message is suspended in save_alert after ALERTS_DB.insert and      *)
(* before the history of the user is written.  The messages are not scam,  *)
(* so no thread dispatches.                                                *)
(***************************************************************************)
ConcurrentEmails == { None, <<"a","@","x">> }

ConcurrentMessages == { Str(<<"h","e","l","l","o">>) }

\* test_message up to ALERTS_DB.insert(0, alert) in save_alert
save_alert_begin(email_in, sender_in, message) ==
    LET email == lower(Or(email_in, <<>>))
        sender == IF sender_in = "" THEN "User" ELSE sender_in
        analysis == AnalysisTable[message]
        alert == new_alert(sender, message, analysis,
                           IF Truthy(email) THEN email ELSE None, gen_id(ALERTS_DB))
    IN  /\ ~should_dispatch(analysis)
        /\ Len(inflight) < MaxThreads
        /\ ALERTS_DB' = insert0(ALERTS_DB, alert)
        /\ inflight' = Append(inflight,
                              [request |-> [op |-> "test_message", email |-> email_in,
                                            sender |-> sender_in, message |-> message],
                               alert |-> alert])
        /\ UNCHANGED <<twilio_client, USERS_DB, FAMILY_LOG_DB, request, response,
                       gateway_calls, provider_calls, phone_raw, e164>>

\* the rest of save_alert and of test_message, for the thread at position i
save_alert_end(i) ==
    /\ USERS_DB' = save_alert_users(USERS_DB, inflight[i].alert)
    /\ request' = inflight[i].request
    /\ response' = [status |-> 200, success |-> TRUE, alert |-> inflight[i].alert]
    /\ no_dispatch
    /\ inflight' = SubSeq(inflight, 1, i - 1) \o SubSeq(inflight, i + 1, Len(inflight))
    /\ UNCHANGED <<twilio_client, ALERTS_DB, FAMILY_LOG_DB, phone_raw, e164>>

Concurrent ==
    \/ \E email_in \in ConcurrentEmails, sender_in \in SenderInputs,
          message \in ConcurrentMessages :
         Room(MaxConcurrentAlerts) /\ save_alert_begin(email_in, sender_in, message)
    \/ \E i \in 1..Len(inflight) : save_alert_end(i)
    \/ \E email_in \in ConcurrentEmails : get_alerts(email_in)
    \/ \E email_in \in ConcurrentEmails, profile \in ServiceProfiles :
         save_profile(email_in, profile)
    \/ \E email_in \in ConcurrentEmails, family \in ServiceFamilies :
         save_family(email_in, family)

SpecConcurrent == InitDirectory /\ [][Concurrent]_vars

(***************************************************************************)
(* The normalizer alone: clean_and_e164 applied to one raw value.          *)
(***************************************************************************)
\* ways of writing a number
Spaced(s) == <<" ">> \o s \o <<" ", "\t">>

Dashed(s) == SubSeq(s, 1, 3) \o <<"-">> \o SubSeq(s, 4, Len(s))

Bracketed(s) == <<"(">> \o SubSeq(s, 1, 3) \o <<")", " ">> \o SubSeq(s, 4, Len(s))

Dotted(s) == SubSeq(s, 1, 5) \o <<".">> \o SubSeq(s, 6, Len(s))

Lettered(s) == SubSeq(s, 1, 5) \o <<"x">> \o SubSeq(s, 6, Len(s))

Writings(s) == { s, Spaced(s), Dashed(s), Bracketed(s), Dotted(s), Lettered(s) }

Nationals == { National, <<"0","1","2","3","4","5","6","7","8","9">> }

Prefixes ==
    { <<>>, <<"0">>, <<"1">>, <<"9">>, <<"0","0">>, <<"9","1">>, <<"1","9">>, <<"9","2">>,
      <<"0","9","1">> }

Signs == { <<>>, <<"+">> }

NormalizerInputs ==
    UNION { Writings(sign \o prefix \o national) :
              sign \in Signs, prefix \in Prefixes, national \in Nationals }
    \cup { None, <<>>, ShortNumber, <<"+">> \o ShortNumber, <<"+">>, <<" ">>,
           <<"a","b","c">>, <<"+","-">> }

InitNormalize ==
    /\ twilio_client = "None"
    /\ USERS_DB = EmptyDict
    /\ ALERTS_DB = <<>>
    /\ FAMILY_LOG_DB = <<>>
    /\ request = [op |-> "start"]
    /\ response = EmptyDict
    /\ gateway_calls = <<>>
    /\ provider_calls = <<>>
    /\ phone_raw \in NormalizerInputs
    /\ e164 = None
    /\ inflight = <<>>

Normalize ==
    /\ request.op = "start"
    /\ request' = [op |-> "clean_and_e164"]
    /\ e164' = clean_and_e164(phone_raw)
    /\ UNCHANGED <<twilio_client, USERS_DB, ALERTS_DB, FAMILY_LOG_DB, response,
                   gateway_calls, provider_calls, phone_raw, inflight>>

SpecNormalize == InitNormalize /\ [][Normalize]_vars

(***************************************************************************)
(* The normalizer applied to a value it returned.                          *)
(***************************************************************************)
Renormalize ==
    /\ request.op = "clean_and_e164"
    /\ e164 # None
    /\ request' = [op |-> "renormalize"]
    /\ phone_raw' = e164
    /\ e164' = clean_and_e164(e164)
    /\ UNCHANGED <<twilio_client, USERS_DB, ALERTS_DB, FAMILY_LOG_DB, response,
                   gateway_calls, provider_calls, inflight>>

SpecRenormalize == InitNormalize /\ [][Normalize \/ Renormalize]_vars

(***************************************************************************)
(* The classifier alone: analyze_message applied to one message value.     *)
(***************************************************************************)
\* ways of writing a keyword in a text
upper_char(c) ==
    IF \E i \in DOMAIN Lowercase : Lowercase[i] = c
    THEN Uppercase[CHOOSE i \in DOMAIN Lowercase : Lowercase[i] = c]
    ELSE c

upper(s) == [i \in 1..Len(s) |-> upper_char(s[i])]

Capitalized(s) == <<upper_char(Head(s))>> \o Tail(s)

Embedded(s) == <<"x">> \o s \o <<"y", " ", "1">>

Split(s) == <<Head(s), " ">> \o Tail(s)

Clipped(s) == SubSeq(s, 1, Len(s) - 1)

Texts(k) == { k, upper(k), Capitalized(k), Embedded(k), Embedded(upper(k)), Split(k), Clipped(k) }

ClassifierInputs ==
    { Str(t) : t \in UNION { Texts(keywords[i]) : i \in DOMAIN keywords } }
    \cup { Str(<<>>), Str(<<"h","e","l","l","o">>), Str(<<"O","T","P"," ","n","o","w">>),
           Str(<<"0","t","p">>), Str(<<"p","t","o">>), Num(<<"5">>) }

InitClassify ==
    /\ twilio_client = "None"
    /\ USERS_DB = EmptyDict
    /\ ALERTS_DB = <<>>
    /\ FAMILY_LOG_DB = <<>>
    /\ request \in { [op |-> "start", message_text |-> m] : m \in ClassifierInputs }
    /\ response = EmptyDict
    /\ gateway_calls = <<>>
    /\ provider_calls = <<>>
    /\ phone_raw = None
    /\ e164 = None
    /\ inflight = <<>>

Classify ==
    /\ request.op = "start"
    /\ request' = [op |-> "analyze_message", message_text |-> request.message_text]
    /\ response' = analyze_message(request.message_text)
    /\ UNCHANGED <<twilio_client, USERS_DB, ALERTS_DB, FAMILY_LOG_DB,
                   gateway_calls, provider_calls, phone_raw, e164, inflight>>

SpecClassify == InitClassify /\ [][Classify]_vars

(***************************************************************************)
(* Properties.                                                             *)
(***************************************************************************)
\* the last request was a submitMessage that returned a dispatch report
Reported == request.op = "test_message" /\ "sms_sent" \in DOMAIN response

\* the Directory Store key of the last request
RequestKey == lower(Or(request.email, <<>>))

\* no two entries of a report carry the same `to`
OncePerNumber(entries) ==
    \A i, j \in 1..Len(entries) : entries[i].to = entries[j].to => i = j

\* the non-empty raw phones stored for a user: the profile phone and the family phones
StoredPhones(user) ==
    { ph \in RawPhones :
        \/ dict_get(user.profile, "phone") = ph
        \/ \E i \in 1..Len(user.family) : dict_get(user.family[i], "phone") = ph }

\* the successful normalizations of the phones stored for the user of the last request
ExpectedTargets ==
    IF Truthy(RequestKey)
    THEN { E164Table[ph] : ph \in StoredPhones(USERS_DB[RequestKey]) } \ { None }
    ELSE {}

\* the `to` values of a report
Targets(entries) == { entries[i].to : i \in 1..Len(entries) }

\* the entries of a report are the newest entries of the Delivery Ledger, newest first
AtHeadOfLedger(entries) ==
    /\ Len(entries) <= Len(FAMILY_LOG_DB)
    /\ \A i \in 1..Len(entries) : FAMILY_LOG_DB[Len(entries) - i + 1] = entries[i]

\* C1: the entries one submitMessage dispatch creates carry pairwise different `to`
\* values, and no number is sent to twice (profile "9876543210" with family
\* "919876543210" gives one entry, to "+919876543210").
C1_DispatchOncePerNumber ==
    Reported => /\ OncePerNumber(response.sms_sent)
                /\ OncePerNumber(gateway_calls)

\* C2: when a message is classified as scam, the `to` values of the entries the
\* dispatch creates are exactly the successful normalizations of the stored non-empty
\* profile and family phones; without an email the report is there and empty.
C2_DispatchComplete ==
    (request.op = "test_message" /\ response.alert.is_scam = "True") =>
        /\ Reported
        /\ AtHeadOfLedger(response.sms_sent)
        /\ Targets(response.sms_sent) = ExpectedTargets
        /\ ~Truthy(request.email) => response.sms_sent = <<>>

\* C2 witness: a scam dispatch for a user with a phone that normalizes and one that
\* does not
C2_Witness ==
    /\ Reported
    /\ Truthy(request.email)
    /\ ShortNumber \in StoredPhones(USERS_DB[RequestKey])
    /\ Targets(response.sms_sent) = { PlusForm }

\* C3: a submitMessage whose verdict is not scam makes no gateway call, leaves the
\* Delivery Ledger as it was and returns no dispatch report; a report is returned only
\* for a scam verdict.
C3_NoDispatchUnlessScam ==
    /\ [](request.op = "test_message" =>
            /\ Reported <=> response.alert.is_scam = "True"
            /\ response.alert.is_scam # "True" =>
                 gateway_calls = <<>> /\ provider_calls = <<>>)
    /\ [][(request'.op = "test_message" /\ response'.alert.is_scam # "True")
            => FAMILY_LOG_DB' = FAMILY_LOG_DB]_vars

\* C3 witness: a message with an unknown verdict was submitted for a user whose
\* phones would have been dispatched to
C3_Witness ==
    /\ request.op = "test_message"
    /\ response.alert.is_scam = "None"
    /\ ExpectedTargets # {}
    /\ FAMILY_LOG_DB # <<>>

\* the alerts of a list carry decreasing ids: the list is most-recent-first
NewestFirst(alerts) ==
    \A i, j \in 1..Len(alerts) : i < j => alerts[i].id > alerts[j].id

\* C4: each insertion puts the new alert at index 0 of the global ledger and of its
\* user's history and leaves the alerts already there as they were, in their order; no
\* other request changes a ledger; listAlerts() returns the ledger most-recent-first.
C4_LedgerNewestFirst ==
    /\ [](/\ NewestFirst(ALERTS_DB)
          /\ \A k \in DOMAIN USERS_DB : NewestFirst(USERS_DB[k].history)
          /\ (request.op = "get_alerts" /\ ~Truthy(request.email)) =>
               response.alerts = ALERTS_DB)
    /\ [][IF request'.op = "test_message"
          THEN /\ ALERTS_DB' = <<response'.alert>> \o ALERTS_DB
               /\ \A k \in DOMAIN USERS_DB' :
                    USERS_DB'[k].history =
                      (IF k = response'.alert.user_email THEN <<response'.alert>> ELSE <<>>)
                      \o (IF k \in DOMAIN USERS_DB THEN USERS_DB[k].history ELSE <<>>)
          ELSE /\ ALERTS_DB' = ALERTS_DB
               /\ \A k \in DOMAIN USERS_DB' :
                    USERS_DB'[k].history =
                      (IF k \in DOMAIN USERS_DB THEN USERS_DB[k].history ELSE <<>>)]_vars

\* C4 witness: listAlerts() returned two alerts, the second inserted first
C4_Witness ==
    /\ request.op = "get_alerts"
    /\ ~Truthy(request.email)
    /\ Len(response.alerts) = 2
    /\ response.alerts[1].id = 2
    /\ response.alerts[2].id = 1
    /\ \E k \in DOMAIN USERS_DB : Len(USERS_DB[k].history) = 2

\* the phones of the last sendAdhocAlert leave nothing to send to
NothingToSend ==
    \/ request.phones.t # "list"
    \/ request.phones.v = <<>>
    \/ \A i \in 1..Len(request.phones.v) : E164Table[request.phones.v[i]] = None

\* C5: sendAdhocAlert fails, calls the gateway zero times and leaves the Delivery
\* Ledger as it was when the phones are no list, an empty list or all fail to
\* normalize; in every other case it succeeds, whatever the gateway answers.
C5_AdhocValidation ==
    /\ [](request.op = "send_family_alert" =>
            IF NothingToSend
            THEN /\ response.status = 400 /\ ~response.success
                 /\ gateway_calls = <<>> /\ provider_calls = <<>>
            ELSE response.status = 200 /\ response.success)
    /\ [][(request'.op = "send_family_alert" /\ NothingToSend')
            => FAMILY_LOG_DB' = FAMILY_LOG_DB]_vars

\* C5 witness: a list whose every phone fails to normalize was rejected, with entries
\* of an earlier dispatch in the ledger
C5_Witness ==
    /\ request.op = "send_family_alert"
    /\ request.phones = List(<<ShortNumber>>)
    /\ response.status = 400
    /\ FAMILY_LOG_DB # <<>>

\* C6: one sendAdhocAlert calls the gateway and appends an entry once per distinct
\* normalized target, also when the list names a number twice.
C6_AdhocOncePerNumber ==
    (request.op = "send_family_alert" /\ response.success) =>
        /\ OncePerNumber(response.logs)
        /\ OncePerNumber(gateway_calls)

\* the last request dispatched: the report it returned, and the number of its targets
\* (the stored or supplied raw phones that normalize)
Dispatched == Reported \/ (request.op = "send_family_alert" /\ response.success)

Report == IF Reported THEN response.sms_sent ELSE response.logs

NumTargets ==
    IF Reported
    THEN IF Truthy(RequestKey)
         THEN Cardinality({ ph \in StoredPhones(USERS_DB[RequestKey]) :
                              E164Table[ph] # None })
         ELSE 0
    ELSE Cardinality({ i \in 1..Len(request.phones.v) :
                         E164Table[request.phones.v[i]] # None })

WellFormed(result) ==
    IF result.ok THEN "sid" \in DOMAIN result ELSE "error" \in DOMAIN result

IsE164(to) ==
    /\ Len(to) >= 2
    /\ to[1] = "+"
    /\ \A i \in 2..Len(to) : to[i] \in Digits

\* C8: every `to` the gateway or the provider is called with, and every `to` of the
\* Delivery Ledger, is a "+" followed by one or more digits.
C8_TargetsAreE164 ==
    /\ \A i \in 1..Len(gateway_calls) : IsE164(gateway_calls[i].to)
    /\ \A i \in 1..Len(provider_calls) : IsE164(provider_calls[i].to)
    /\ \A i \in 1..Len(FAMILY_LOG_DB) : IsE164(FAMILY_LOG_DB[i].to)

\* C8 witness: the gateway was called with a national number given its country code
\* and with a number that came with its own
C8_Witness ==
    /\ \E i \in 1..Len(FAMILY_LOG_DB) : FAMILY_LOG_DB[i].to = Foreign
    /\ \E i \in 1..Len(FAMILY_LOG_DB) : FAMILY_LOG_DB[i].to = PlusForm
    /\ gateway_calls # <<>>

Unpunctuated(raw) ==
    SelectSeq(strip(raw), LAMBDA c : c \notin {" ", "-", "(", ")", "."})

Signed(raw) == Unpunctuated(raw) # <<>> /\ Head(Unpunctuated(raw)) = "+"

DigitString(raw) == IF Signed(raw) THEN Tail(Unpunctuated(raw)) ELSE Unpunctuated(raw)

\* 11 or 12 digits that match neither 12 digits with the default country code nor 11
\* digits with one leading 0
Ambiguous(raw) ==
    /\ raw # None
    /\ isdigit(DigitString(raw))
    /\ Len(DigitString(raw)) \in {11, 12}
    /\ ~(Len(DigitString(raw)) = 12 /\ SubSeq(DigitString(raw), 1, 2) = <<"9", "1">>)
    /\ ~(Len(DigitString(raw)) = 11 /\ Head(DigitString(raw)) = "0")

Normalized == request.op = "clean_and_e164"

\* C10 as claimed: ambiguous 11 and 12 digit inputs are Invalid with or without a
\* leading "+", and so are "12345" and "".
C10_AmbiguousIsInvalid ==
    Normalized =>
        /\ Ambiguous(phone_raw) => e164 = None
        /\ phone_raw \in {ShortNumber, <<>>} => e164 = None

\* C10 as amended: ambiguous 11 and 12 digit inputs are Invalid when written without a
\* leading "+"; written with one they are returned as "+" and their digits; "12345"
\* and "" are Invalid.
C10_AmbiguousIsInvalidUnlessSigned ==
    Normalized =>
        /\ Ambiguous(phone_raw) =>
             e164 = IF Signed(phone_raw) THEN <<"+">> \o DigitString(phone_raw) ELSE None
        /\ phone_raw \in {ShortNumber, <<>>} => e164 = None

\* C10 witness: 12 punctuated digits with a leading "+" and another country code
C10_Witness ==
    /\ Normalized
    /\ Ambiguous(phone_raw)
    /\ Signed(phone_raw)
    /\ Len(phone_raw) > Len(DigitString(phone_raw)) + 1
    /\ e164 = <<"+", "9", "2">> \o National

\* a way of writing a 10-digit national number N: N, country code and N, "0" and N,
\* "+" country code and N, or "+" and N, with punctuation anywhere
CanonicalForm(raw) ==
    /\ raw # None
    /\ isdigit(DigitString(raw))
    /\ \/ Len(DigitString(raw)) = 10
       \/ Len(DigitString(raw)) = 12 /\ SubSeq(DigitString(raw), 1, 2) = default_country
       \/ Len(DigitString(raw)) = 11 /\ Head(DigitString(raw)) = "0" /\ ~Signed(raw)

\* the national number of a writing: its last ten digits
NationalOf(raw) == SubSeq(DigitString(raw), Len(DigitString(raw)) - 9, Len(DigitString(raw)))

\* C11: every way of writing a 10-digit national number N (N, country code and N, "0"
\* and N, "+" country code and N, each with punctuation interleaved) normalizes to "+",
\* the country code and N; ten digits are domestic also behind a "+".
C11_CanonicalForms ==
    (Normalized /\ CanonicalForm(phone_raw)) =>
        e164 = <<"+">> \o default_country \o NationalOf(phone_raw)

\* C11 witness: ten punctuated digits behind a "+" were given the country code
C11_Witness ==
    /\ Normalized
    /\ Signed(phone_raw)
    /\ Len(DigitString(phone_raw)) = 10
    /\ Len(phone_raw) > 11
    /\ e164 = PlusForm

\* C20: a value the normalizer returned normalizes to itself.
C20_Idempotent ==
    request.op = "renormalize" => e164 = phone_raw

\* C20 witness: a number of another country, returned as it was written, was normalized
\* again
C20_Witness ==
    /\ request.op = "renormalize"
    /\ phone_raw = <<"+", "1", "9">> \o National
    /\ e164 = phone_raw

\* the keyword set of the claim
ClaimedKeywords ==
    { <<"o","t","p">>, <<"u","r","g","e","n","t">>, <<"b","a","n","k">>,
      <<"b","l","o","c","k","e","d">>, <<"v","e","r","i","f","y">>,
      <<"p","a","s","s","w","o","r","d">>, <<"t","r","a","n","s","f","e","r">>,
      <<"a","c","c","o","u","n","t">>, <<"c","l","i","c","k">>, <<"w","i","r","e">> }

\* c is the lower-case letter d or its capital
SameLetter(c, d) == c = d \/ \E i \in DOMAIN Uppercase : c = Uppercase[i] /\ d = Lowercase[i]

\* the text holds keyword k at position i, in any letter case
KeywordAt(text, k, i) ==
    /\ i + Len(k) - 1 <= Len(text)
    /\ \A j \in 1..Len(k) : SameLetter(text[i + j - 1], k[j])

HasKeyword(text) == \E k \in ClaimedKeywords, i \in 1..Len(text) : KeywordAt(text, k, i)

Classified == request.op = "analyze_message" /\ request.message_text.t = "str"

\* C13: a text is classified as scam exactly when it holds one of the ten keywords as a
\* substring in any letter case, and it gets the suspicious warning exactly when it is
\* classified as scam, the safe warning otherwise.
C13_ClassifierVerdict ==
    Classified =>
        /\ response.is_scam = (IF HasKeyword(request.message_text.v) THEN "True" ELSE "False")
        /\ response.elder_warning =
             (IF response.is_scam = "True" THEN SuspiciousWarning ELSE SafeWarning)

\* C13 witness: a keyword in capitals inside a longer word was classified as scam
C13_Witness ==
    /\ Classified
    /\ request.message_text.v = Embedded(<<"W","I","R","E">>)
    /\ response.is_scam = "True"
    /\ response.elder_warning = SuspiciousWarning

\* the last request was a submitMessage whose message value is no text
Unclassifiable == request.op = "test_message" /\ request.message.t # "str"

\* C12: for a message value on which the classifier fails, the result carries the
\* unknown verdict, the fixed apologetic warning and the description of the error;
\* submitMessage succeeds, records exactly one alert with the unknown verdict and
\* dispatches nothing.
C12_FailureDegrades ==
    /\ [](Unclassifiable =>
            /\ response.status = 200 /\ response.success
            /\ response.alert.is_scam = "None"
            /\ response.alert.elder_warning = FailureWarning
            /\ response.alert.explanation = "'int' object has no attribute 'lower'"
            /\ ALERTS_DB # <<>> /\ ALERTS_DB[1] = response.alert
            /\ "sms_sent" \notin DOMAIN response
            /\ gateway_calls = <<>> /\ provider_calls = <<>>)
    /\ [][Unclassifiable' =>
            /\ ALERTS_DB' = <<response'.alert>> \o ALERTS_DB
            /\ FAMILY_LOG_DB' = FAMILY_LOG_DB]_vars

\* C12 witness: a number was submitted as the message of a user with stored phones, and
\* the alert with the unknown verdict is the second of the ledger and in the history
C12_Witness ==
    /\ Unclassifiable
    /\ response.alert.is_scam = "None"
    /\ Len(ALERTS_DB) = 2
    /\ Truthy(request.email)
    /\ ExpectedTargets # {}
    /\ USERS_DB[RequestKey].history[1] = response.alert

\* the last request was a login, saveProfile or saveFamily without an email
EmailMissing ==
    /\ request.op \in {"login", "save_profile", "save_family"}
    /\ request.email \in {None, <<>>}

\* C14: login, saveProfile and saveFamily without an email (missing or empty) are
\* rejected and leave the Directory Store and both ledgers as they were; no record is
\* ever kept under an empty key.
C14_RejectedWritesNothing ==
    /\ [](/\ EmailMissing => (response.status = 400 /\ ~response.success)
          /\ \A k \in DOMAIN USERS_DB : k # <<>> /\ k # None)
    /\ [][EmailMissing' => UNCHANGED <<USERS_DB, ALERTS_DB, FAMILY_LOG_DB>>]_vars

\* C14 witness: a saveFamily with an empty email was rejected while the stores held a
\* user with a family and an alert
C14_Witness ==
    /\ request.op = "save_family"
    /\ request.email = <<>>
    /\ response.status = 400
    /\ ALERTS_DB # <<>>
    /\ \E k \in DOMAIN USERS_DB : USERS_DB[k].family # <<>>

\* no letter of the key is a capital
IsLowerCase(k) == \A i \in 1..Len(k) : \A j \in DOMAIN Uppercase : k[i] # Uppercase[j]

\* the two emails differ at most in letter case
SameEmail(a, b) ==
    /\ Len(a) = Len(b)
    /\ \A i \in 1..Len(a) : SameLetter(a[i], b[i]) \/ SameLetter(b[i], a[i])

\* the default record of the claim
ClaimedDefault(k) ==
    [profile |-> [email |-> k, name |-> <<>>, phone |-> <<>>],
     family |-> <<>>, history |-> <<>>]

\* the record of key k before the step, or the default record if there was none
Before(k) == IF k \in DOMAIN USERS_DB THEN USERS_DB[k] ELSE ClaimedDefault(k)

\* the step served a login, saveProfile, saveFamily or submitMessage with an email
Referenced ==
    /\ request'.op \in {"login", "save_profile", "save_family", "test_message"}
    /\ request'.email \notin {None, <<>>}

\* what the request of the step writes to the record r
WrittenBy(r) ==
    CASE request'.op = "save_profile" -> [r EXCEPT !.profile = request'.profile]
      [] request'.op = "save_family" -> [r EXCEPT !.family = request'.family]
      [] request'.op = "test_message" -> [r EXCEPT !.history = <<response'.alert>> \o @]
      [] OTHER -> r

\* C15: every key of the Directory Store is lower-case and no two keys differ only in
\* letter case; a login, saveProfile, saveFamily or submitMessage with an email works
\* on the one record under the lower-cased email, which is the default record if the
\* email was unknown and the record as it was otherwise, and touches no other record.
C15_LowerCasedIdentity ==
    /\ [](\A k \in DOMAIN USERS_DB :
            /\ IsLowerCase(k)
            /\ \A l \in DOMAIN USERS_DB : SameEmail(k, l) => k = l)
    /\ [][Referenced =>
            \E k \in DOMAIN USERS_DB' :
               /\ SameEmail(k, request'.email)
               /\ DOMAIN USERS_DB' = DOMAIN USERS_DB \cup {k}
               /\ USERS_DB'[k] = WrittenBy(Before(k))
               /\ \A l \in DOMAIN USERS_DB : l # k => USERS_DB'[l] = USERS_DB[l]]_vars

\* C15 witness: a login in capitals found the record that was written to under the
\* lower-case email
C15_Witness ==
    /\ request.op = "login"
    /\ request.email = <<"A","@","x">>
    /\ DOMAIN USERS_DB = { <<"a","@","x">> }
    /\ USERS_DB[<<"a","@","x">>].profile = Profile(National)
    /\ USERS_DB[<<"a","@","x">>].family # <<>>
    /\ USERS_DB[<<"a","@","x">>].history # <<>>
    /\ response.user = USERS_DB[<<"a","@","x">>]

\* the known users whose key is the email up to letter case
KnownAs(email) == { k \in DOMAIN USERS_DB : SameEmail(k, email) }

\* C16: listAlerts returns the history of the user for the email of a known user, the
\* empty sequence for an unknown email and the global ledger without an email, and
\* leaves every store as it was; it creates no record.
C16_ListAlertsReadOnly ==
    /\ [](request.op = "get_alerts" =>
            /\ response.status = 200
            /\ response.alerts =
                 (IF request.email \in {None, <<>>} THEN ALERTS_DB
                  ELSE IF KnownAs(request.email) = {} THEN <<>>
                  ELSE USERS_DB[CHOOSE k \in KnownAs(request.email) : TRUE].history))
    /\ [][request'.op = "get_alerts" =>
            UNCHANGED <<USERS_DB, ALERTS_DB, FAMILY_LOG_DB>>]_vars

\* C16 witness: the alerts of an unknown email were listed while another user had a
\* history
C16_Witness ==
    /\ request.op = "get_alerts"
    /\ request.email = <<"b","@","x">>
    /\ response.alerts = <<>>
    /\ DOMAIN USERS_DB = { <<"a","@","x">> }
    /\ USERS_DB[<<"a","@","x">>].history # <<>>

\* the alerts of a list that carry the user_email k, in the order of the list
AlertsOf(k, alerts) == SelectSeq(alerts, LAMBDA a : a.user_email = k)

\* C18: the history of every user is the global Alert Ledger restricted to the alerts
\* of that user, in the same order, and every alert with an email is in a history;
\* every submitMessage adds exactly one alert to the global ledger whatever the
\* verdict, and to a history exactly when an email was supplied.
C18_HistoryMirrorsLedger ==
    /\ [](/\ \A k \in DOMAIN USERS_DB : USERS_DB[k].history = AlertsOf(k, ALERTS_DB)
          /\ \A i \in 1..Len(ALERTS_DB) :
               ALERTS_DB[i].user_email # None => ALERTS_DB[i].user_email \in DOMAIN USERS_DB)
    /\ [][request'.op = "test_message" =>
            /\ Len(ALERTS_DB') = Len(ALERTS_DB) + 1
            /\ ALERTS_DB'[1] = response'.alert
            /\ (response'.alert.user_email # None) <=> (request'.email \notin {None, <<>>})
            /\ \A k \in DOMAIN USERS_DB' :
                 Len(USERS_DB'[k].history) =
                   (IF k \in DOMAIN USERS_DB THEN Len(USERS_DB[k].history) ELSE 0)
                   + (IF k = response'.alert.user_email THEN 1 ELSE 0)]_vars

\* C18 witness: the ledger holds an alert without a user above an alert of a user, whose
\* history holds that one alert, with an unknown verdict
C18_Witness ==
    /\ Len(ALERTS_DB) = 2
    /\ ALERTS_DB[1].user_email = None
    /\ ALERTS_DB[2].user_email = <<"a","@","x">>
    /\ ALERTS_DB[2].is_scam = "None"
    /\ USERS_DB[<<"a","@","x">>].history = <<ALERTS_DB[2]>>

\* the step served a saveFamily or a saveProfile with an email
Saved(op) == request'.op = op /\ request'.email \notin {None, <<>>}

\* the step changed no record but the one of key k, and no ledger
OnlyRecord(k) ==
    /\ DOMAIN USERS_DB' = DOMAIN USERS_DB \cup {k}
    /\ \A l \in DOMAIN USERS_DB : l # k => USERS_DB'[l] = USERS_DB[l]
    /\ UNCHANGED <<ALERTS_DB, FAMILY_LOG_DB>>

\* C19: saveFamily sets the family of the user to exactly the contacts of the request
\* and leaves the profile and the history of the user, every other record and both
\* ledgers as they were; saveProfile likewise replaces the profile only.
C19_ReplaceNotMerge ==
    /\ [][Saved("save_family") =>
            \E k \in DOMAIN USERS_DB' :
               /\ SameEmail(k, request'.email)
               /\ USERS_DB'[k].family = request'.family
               /\ USERS_DB'[k].profile = Before(k).profile
               /\ USERS_DB'[k].history = Before(k).history
               /\ OnlyRecord(k)]_vars
    /\ [][Saved("save_profile") =>
            \E k \in DOMAIN USERS_DB' :
               /\ SameEmail(k, request'.email)
               /\ USERS_DB'[k].profile = request'.profile
               /\ USERS_DB'[k].family = Before(k).family
               /\ USERS_DB'[k].history = Before(k).history
               /\ OnlyRecord(k)]_vars

\* C19 witness: a family was saved for a user with a profile and a history, next to
\* another user with another family
C19_Witness ==
    /\ request.op = "save_family"
    /\ request.email = <<"a","@","x">>
    /\ USERS_DB[<<"a","@","x">>].family = << Contact(Foreign) >>
    /\ USERS_DB[<<"a","@","x">>].profile = Profile(National)
    /\ USERS_DB[<<"a","@","x">>].history # <<>>
    /\ <<"b","@","x">> \in DOMAIN USERS_DB
    /\ USERS_DB[<<"b","@","x">>].family = << Contact(PlusForm) >>

\* the alert is in the history of its user
InHistory(alert) ==
    /\ alert.user_email \in DOMAIN USERS_DB
    /\ \E j \in 1..Len(USERS_DB[alert.user_email].history) :
         USERS_DB[alert.user_email].history[j] = alert

\* C17: with requests served concurrently, a reader is never returned a global ledger
\* that holds an alert of a user which the history of that user does not hold.
C17_NoPartialInsert ==
    (request.op = "get_alerts" /\ request.email \in {None, <<>>}) =>
        \A i \in 1..Len(response.alerts) :
            response.alerts[i].user_email # None => InHistory(response.alerts[i])

====
